---- MODULE Spec2Model ----
(***************************************************************************)
(* Model of src/src/extension.ts (the "scribe" VS Code extension): one     *)
(* countdown per workspace folder kept in three process-wide maps, a timer *)
(* callback that writes a log entry and commits it with git, and the       *)
(* restart / disable commands.                                            *)
(*                                                                         *)
(* Time is a discrete clock `now` (one unit = one tick); model instant n   *)
(* stands for Date.now() = epoch + n, so every recorded timestamp is       *)
(* truthy.  The event loop is single threaded: every action below is one   *)
(* turn of it.  A wake-up that is due is delivered before the clock moves  *)
(* on (timer latency is below the clock granularity); other turns (pulses, *)
(* commands, git completions) may still be taken at the same instant.      *)
(***************************************************************************)
EXTENDS Integers, Sequences, FiniteSets, TLC

\* ---------------------------------------------------------------- bounds
Roots == {"A", "B"}          \* vscode.workspace.workspaceFolders
TimerDuration == 3           \* timerDuration (configuration value), in ticks
MaxTime == 6                 \* the clock stops here
MaxLog == 2                  \* a root fires only while its log is shorter

\* Which roots have a repository.  At most one of them has: the layout with a
\* repository in every root is checked apart, with RepoLayouts replaced by
\* [Roots -> BOOLEAN] (ten times the states).
RepoLayouts == {g \in [Roots -> BOOLEAN] : \E w \in Roots : \A v \in Roots \ {w} : ~g[v]}

NoTime == -1                 \* lastActivityTimestamps[w] === undefined

VARIABLES
  now,                       \* Date.now()
  activityTimers,            \* line 7
  remainingTimes,            \* line 8
  lastActivityTimestamps,    \* line 9
  timeouts,                  \* the runtime's timer list: wake-ups set, not yet run or cleared
  logFile,                   \* contents of <root>/scribe-log.txt, <<>> = absent
  hasGit,                    \* <root>/.git is a directory
  inflight,                  \* git commands started and not yet completed
  lifecycle,                 \* "active" | "disabled" | "restarted" | "disposed"
  notified,                  \* observation: messages shown by the last turn
  pulses                     \* observation: the pulses so far, see PulseHistory

vars == <<now, activityTimers, remainingTimes, lastActivityTimestamps,
          timeouts, logFile, hasGit, inflight, lifecycle, notified,
          pulses>>

session == <<activityTimers, remainingTimes, lastActivityTimestamps, timeouts>>

\* "none": no pulse at an instant > 0.  "every": a pulse at every instant
\* 1..now.  "due": a pulse at every instant 1..now-1, none yet at now.
\* "other": anything else, and whatever came before a command or disposal
\* (the pulse history is only observed for the sessions made at activation).
PulseHistory == {"none", "every", "due", "other"}

\* ------------------------------------------------------------ timer handles
\* A handle is the value setTimeout returns.  A handle whose wake-up has run
\* or has been cleared is inert, whatever it was: it is kept as Cleared.
Undefined == [st |-> "undefined", born |-> 0, due |-> 0]
Cleared == [st |-> "dead", born |-> 0, due |-> 0]
Timeout(delay, t) == [st |-> "live", born |-> t, due |-> t + delay]

Truthy(h) == h.st # "undefined"
Live(h) == h.st = "live"

\* clearTimeout(h) on the timer list q
clearTimeout(q, h) == q \ {h}

Max(a, b) == IF a >= b THEN a ELSE b

\* ------------------------------------------------- the session of one root
Session(w) == [timer |-> activityTimers[w],
               remaining |-> remainingTimes[w],
               last |-> lastActivityTimestamps[w],
               queue |-> timeouts[w]]

\* variant: every (re)start waits the full duration (a debounce)
startOrResumeTimer_FullDelay(s, t) ==
  [timer |-> Timeout(TimerDuration, t),
   remaining |-> s.remaining,
   last |-> t,
   queue |-> (IF Truthy(s.timer) THEN clearTimeout(s.queue, s.timer) ELSE s.queue)
               \cup {Timeout(TimerDuration, t)}]

\* variant: lines 76-78 missing, the handle is overwritten without clearTimeout
startOrResumeTimer_NoClear(s, t) ==
  [timer |-> Timeout(s.remaining, t),
   remaining |-> s.remaining,
   last |-> t,
   queue |-> s.queue \cup {Timeout(s.remaining, t)}]

\* lines 75-100, without the callback body
startOrResumeTimer(s, t) ==
  [timer |-> Timeout(s.remaining, t),
   remaining |-> s.remaining,
   last |-> t,
   queue |-> (IF Truthy(s.timer) THEN clearTimeout(s.queue, s.timer) ELSE s.queue)
               \cup {Timeout(s.remaining, t)}]

\* variant: the elapsed time is added instead of subtracted
pauseTimer_AddsElapsed(s, t) ==
  [timer |-> IF Truthy(s.timer) THEN Undefined ELSE s.timer,
   remaining |-> IF s.last # NoTime
                 THEN Max(s.remaining + (t - s.last), 0)
                 ELSE s.remaining,
   last |-> s.last,
   queue |-> IF Truthy(s.timer) THEN clearTimeout(s.queue, s.timer) ELSE s.queue]

\* variant: line 110 without Math.max
pauseTimer_NoClamp(s, t) ==
  [timer |-> IF Truthy(s.timer) THEN Undefined ELSE s.timer,
   remaining |-> IF s.last # NoTime
                 THEN s.remaining - (t - s.last)
                 ELSE s.remaining,
   last |-> s.last,
   queue |-> IF Truthy(s.timer) THEN clearTimeout(s.queue, s.timer) ELSE s.queue]

\* variant: lines 108-111 missing, the elapsed time is not banked
pauseTimer_NoBank(s, t) ==
  [timer |-> IF Truthy(s.timer) THEN Undefined ELSE s.timer,
   remaining |-> s.remaining,
   last |-> s.last,
   queue |-> IF Truthy(s.timer) THEN clearTimeout(s.queue, s.timer) ELSE s.queue]

\* lines 102-112
pauseTimer(s, t) ==
  [timer |-> IF Truthy(s.timer) THEN Undefined ELSE s.timer,
   remaining |-> IF s.last # NoTime
                 THEN Max(s.remaining - (t - s.last), 0)
                 ELSE s.remaining,
   last |-> s.last,
   queue |-> IF Truthy(s.timer) THEN clearTimeout(s.queue, s.timer) ELSE s.queue]

\* lines 114-117
handleActivity(s, t) == startOrResumeTimer(pauseTimer(s, t), t)

\* variant: line 96 missing
resetAndRestart_NoReschedule(s, t) == [s EXCEPT !.remaining = TimerDuration]

\* variant: line 95 missing
resetAndRestart_NoReset(s, t) == startOrResumeTimer(s, t)

\* lines 94-96: the tail of the timer callback
resetAndRestart(s, t) ==
  startOrResumeTimer([s EXCEPT !.remaining = TimerDuration], t)

\* lines 122-124
handleActivityTracking(s, t) ==
  startOrResumeTimer([s EXCEPT !.remaining = TimerDuration], t)

\* the wake-up h of a root has run: the handle stored for it, if any, is inert
ran(s, h) ==
  [s EXCEPT !.timer = IF s.timer = h THEN Cleared ELSE s.timer,
            !.queue = s.queue \ {h}]

\* ------------------------------------------------------------ the log file
existsSync(log) == log # <<>>

\* variant: the file is always opened with flag 'w'
writeLog_Truncates(log, t) == <<t>>

\* lines 81-90
writeLog(log, t) == IF ~existsSync(log) THEN <<t>> ELSE Append(log, t)

\* variant: the repository is not looked at
deactivateLog_IgnoresRepo(log, git) == IF existsSync(log) THEN <<>> ELSE log

\* lines 185-198, for one root
deactivateLog(log, git) ==
  IF existsSync(log) THEN (IF git THEN log ELSE <<>>) ELSE log

deactivateNotes(log, git, w) ==
  IF existsSync(log)
  THEN (IF git THEN {<<w, "warning: log file not deleted">>}
        ELSE {<<w, "log: log file deleted">>})
  ELSE {}

\* lines 17-20
isGitInitialized(w) == hasGit[w]

\* variant: line 49 missing
commitLogFile_NoProbe(git) == 1

\* lines 49, 53: the git commands commitLogFile starts at once
commitLogFile(git) == IF git THEN 1 ELSE 0

\* ------------------------------------------------------------------- Init
\* the state after activate (lines 127-177) with both roots open, at instant 0
Init ==
  /\ now = 0
  /\ hasGit \in RepoLayouts
  /\ activityTimers = [w \in Roots |-> Timeout(TimerDuration, 0)]
  /\ remainingTimes = [w \in Roots |-> TimerDuration]
  /\ lastActivityTimestamps = [w \in Roots |-> 0]
  /\ timeouts = [w \in Roots |-> {Timeout(TimerDuration, 0)}]
  /\ logFile = [w \in Roots |-> <<>>]
  /\ inflight = [w \in Roots |-> [add |-> 0, commit |-> 0]]
  /\ lifecycle = "active"
  /\ notified = {}
  /\ pulses = "none"

SetSessions(f) ==
  /\ activityTimers' = [w \in Roots |-> f[w].timer]
  /\ remainingTimes' = [w \in Roots |-> f[w].remaining]
  /\ lastActivityTimestamps' = [w \in Roots |-> f[w].last]
  /\ timeouts' = [w \in Roots |-> f[w].queue]

\* variant: the three maps of lines 7-9 not keyed by the workspace path
SetSession_Shared(w, s) == SetSessions([x \in Roots |-> s])

SetSession(w, s) == SetSessions([x \in Roots |-> IF x = w THEN s ELSE Session(x)])

DueNow(w) == {h \in timeouts[w] : h.due <= now}

\* ------------------------------------------------------------------ clock
Tick ==
  /\ now < MaxTime
  /\ \A w \in Roots : DueNow(w) = {}
  /\ now' = now + 1
  /\ pulses' = CASE pulses = "every" -> "due"
                 [] pulses = "due" -> "other"
                 [] OTHER -> pulses
  /\ notified' = {}
  /\ UNCHANGED <<session, logFile, hasGit, inflight, lifecycle>>

\* --------------------------------------------------------- activity pulse
\* A selection or document change in root a.  The listeners of lines 119-120
\* are registered on the window and the workspace, not on a folder: every
\* registered handleActivity runs, whichever root the change happened in.
\* After a restart a root has one more handleActivity on each event; they run
\* back to back at the same instant on the same three maps, and a second run
\* finds elapsedTime = 0 and re-arms the same wake-up, so one run stands for
\* all of them.
Pulse(a) ==
  /\ a \in Roots
  /\ SetSessions([w \in Roots |-> handleActivity(Session(w), now)])
  /\ pulses' = CASE pulses = "none" /\ now = 0 -> "none"
                 [] pulses = "none" /\ now = 1 -> "every"
                 [] pulses \in {"every", "due"} -> "every"
                 [] OTHER -> "other"
  /\ notified' = {}
  /\ UNCHANGED <<now, logFile, hasGit, inflight, lifecycle>>

\* ------------------------------------------------------------- timer fire
\* lines 80-97 up to the first suspension: the wake-up h of root w runs.
\* Without a repository commitLogFile returns at once and the await resumes
\* in the same turn (a microtask); with one, the turn ends inside
\* executeGitCommand.
Fire(w) ==
  /\ Len(logFile[w]) < MaxLog
  /\ \E h \in DueNow(w) :
       LET git == isGitInitialized(w)
           s0 == ran(Session(w), h)
           started == commitLogFile(git)
       IN /\ logFile' = [logFile EXCEPT ![w] = writeLog(logFile[w], now)]
          /\ inflight' = [inflight EXCEPT ![w].add = @ + started]
          /\ IF started > 0
             THEN SetSession(w, s0)
             ELSE SetSession(w, resetAndRestart(s0, now))
          /\ notified' =
               (IF ~existsSync(logFile[w]) THEN {<<w, "info: log file created">>} ELSE {})
               \cup (IF git THEN {} ELSE {<<w, "warning: git is not initialized">>})
  /\ UNCHANGED <<now, hasGit, lifecycle, pulses>>

\* variant: line 34 resolves instead of rejecting, `git commit` starts after
\* a failed `git add`
StageDone_CommitsAnyway(w, ok) ==
  /\ inflight[w].add > 0
  /\ inflight' = [inflight EXCEPT ![w].add = @ - 1, ![w].commit = @ + 1]
  /\ notified' = IF ok THEN {} ELSE {<<w, "error: git add failed">>}
  /\ UNCHANGED session
  /\ UNCHANGED <<now, logFile, hasGit, lifecycle, pulses>>

\* lines 28-41 and 53-60: `git add` of root w completes
StageDone(w, ok) ==
  /\ inflight[w].add > 0
  /\ IF ok
     THEN /\ inflight' = [inflight EXCEPT ![w].add = @ - 1, ![w].commit = @ + 1]
          /\ notified' = {}
          /\ UNCHANGED session
     ELSE /\ inflight' = [inflight EXCEPT ![w].add = @ - 1]
          /\ notified' = {<<w, "error: git add failed">>,
                          <<w, "error: failed to commit log file">>}
          /\ SetSession(w, resetAndRestart(Session(w), now))
  /\ UNCHANGED <<now, logFile, hasGit, lifecycle, pulses>>

\* lines 28-41 and 55-60, then 94-96: `git commit` of root w completes
CommitDone(w, ok) ==
  /\ inflight[w].commit > 0
  /\ inflight' = [inflight EXCEPT ![w].commit = @ - 1]
  /\ notified' = IF ok THEN {<<w, "info: log file committed">>}
                 ELSE {<<w, "error: git commit failed">>,
                       <<w, "error: failed to commit log file">>}
  /\ SetSession(w, resetAndRestart(Session(w), now))
  /\ UNCHANGED <<now, logFile, hasGit, lifecycle, pulses>>

\* --------------------------------------------------------------- commands
\* lines 179-201
deactivate ==
  /\ logFile' = [w \in Roots |-> deactivateLog(logFile[w], isGitInitialized(w))]
  /\ notified' = UNION {deactivateNotes(logFile[w], isGitInitialized(w), w) : w \in Roots}

\* lines 151-157
disableCommand ==
  /\ lifecycle # "disposed"
  /\ deactivate
  /\ lifecycle' = "disabled"
  /\ pulses' = "other"
  /\ UNCHANGED <<now, session, hasGit, inflight>>

\* lines 142-149.  activate(context) (lines 127-177) registers the three
\* commands again while they are still registered: registerCommand raises
\* "command already exists" for a duplicate identifier, which ends the
\* command handler at line 135; a host that accepts the duplicate lets
\* activate run to the end.  Both outcomes are kept.
restartCommand ==
  /\ lifecycle # "disposed"
  /\ deactivate
  /\ \E raises \in BOOLEAN :
       IF raises
       THEN /\ lifecycle' = IF lifecycle = "disabled" THEN "disabled" ELSE "restarted"
            /\ UNCHANGED session
       ELSE /\ SetSessions([w \in Roots |-> handleActivityTracking(Session(w), now)])
            /\ lifecycle' = "restarted"
  /\ pulses' = "other"
  /\ UNCHANGED <<now, hasGit, inflight>>

\* The host deactivates the extension: it calls the exported deactivate
\* (lines 179-201) and disposes context.subscriptions, i.e. the commands
\* (line 166) and the disposable of lines 168-176.
dispose ==
  /\ lifecycle # "disposed"
  /\ deactivate
  /\ lifecycle' = "disposed"
  /\ activityTimers' = [w \in Roots |->
        IF Live(activityTimers[w]) THEN Cleared ELSE activityTimers[w]]
  /\ timeouts' = [w \in Roots |->
        IF Truthy(activityTimers[w])
        THEN clearTimeout(timeouts[w], activityTimers[w]) ELSE timeouts[w]]
  /\ pulses' = "other"
  /\ UNCHANGED <<now, remainingTimes, lastActivityTimestamps, hasGit, inflight>>

Next ==
  \/ Tick
  \/ \E a \in Roots : Pulse(a)
  \/ \E w \in Roots : Fire(w)
  \/ \E w \in Roots, ok \in BOOLEAN : StageDone(w, ok)
  \/ \E w \in Roots, ok \in BOOLEAN : CommitDone(w, ok)
  \/ disableCommand
  \/ restartCommand
  \/ dispose

Spec == Init /\ [][Next]_vars

\* lines 80-90 with a file system that rejects the write: writeFileSync or
\* appendFileSync throws inside the async callback, the callback's promise is
\* rejected and lines 84-97 (notification, commit, reset, reschedule) are not
\* reached
FireWriteFails(w) ==
  /\ \E h \in DueNow(w) : SetSession(w, ran(Session(w), h))
  /\ notified' = {}
  /\ UNCHANGED <<now, logFile, inflight, hasGit, lifecycle, pulses>>

NextIO ==
  \/ Next
  \/ \E w \in Roots : FireWriteFails(w)

\* the extension on a file system whose writes may fail
SpecIO == Init /\ [][NextIO]_vars

\* Scheduling of the host: a due setTimeout callback is eventually run by the
\* event loop (line 80), and every child process started by exec (line 30)
\* eventually calls back.
Fairness ==
  \A w \in Roots :
    /\ WF_vars(Fire(w))
    /\ WF_vars(\E ok \in BOOLEAN : StageDone(w, ok))
    /\ WF_vars(\E ok \in BOOLEAN : CommitDone(w, ok))

SpecLive == Spec /\ Fairness

\* ================================================================ claims
Idle(w) == inflight[w] = [add |-> 0, commit |-> 0]
Teardown == disableCommand \/ restartCommand \/ dispose
FireTail(w) == Fire(w) \/ StageDone(w, FALSE) \/ (\E ok \in BOOLEAN : CommitDone(w, ok))
Rearmed(w) ==
  /\ remainingTimes'[w] = TimerDuration
  /\ activityTimers'[w] = Timeout(TimerDuration, now)
  /\ timeouts'[w] = {Timeout(TimerDuration, now)}

\* C1: once the disable command has run, no root has a pending wake-up, and a
\* log file that teardown deleted (root without repository) stays absent.
C1_DisableCancelsWakeups ==
  lifecycle = "disabled" =>
    \A w \in Roots : timeouts[w] = {} /\ (~hasGit[w] => logFile[w] = <<>>)

\* C2: every restart leaves each root with remainingMs = timerDurationMs and
\* exactly one pending wake-up, scheduled now for the full duration.
C2_RestartResetsEveryRoot ==
  [][restartCommand => \A w \in Roots : Rearmed(w)]_vars

\* C3: a session started at instant 0 that sees no pulse afterwards does not
\* fire before timerDuration, fires exactly once at timerDuration (one log
\* entry), and starts one git command sequence then if the root has a
\* repository and none otherwise; no second entry before 2 * timerDuration.
C3_OneFireAfterSilence ==
  \A w \in Roots :
    (lifecycle = "active" /\ pulses = "none") =>
      /\ ~hasGit[w] => Idle(w)
      /\ inflight[w].add + inflight[w].commit <= 1
      /\ (now < TimerDuration \/ (now = TimerDuration /\ DueNow(w) # {})) =>
            logFile[w] = <<>> /\ Idle(w)
      /\ (now >= TimerDuration /\ now < 2 * TimerDuration /\ DueNow(w) = {}) =>
            logFile[w] = <<TimerDuration>>

C3_Witness ==
  \E w \in Roots :
    /\ lifecycle = "active" /\ pulses = "none" /\ now = TimerDuration
    /\ hasGit[w] /\ logFile[w] = <<TimerDuration>> /\ inflight[w].commit = 1

\* C4: a pulse never raises a root's remaining time, and the remaining time
\* grows only at the end of a fire action (or on restart), where it becomes
\* timerDuration.
C4_RemainingOnlyDecreasesUntilFire ==
  [][\A w \in Roots :
       /\ (\E a \in Roots : Pulse(a)) => remainingTimes'[w] <= remainingTimes[w]
       /\ remainingTimes'[w] > remainingTimes[w] =>
            (FireTail(w) \/ restartCommand) /\ remainingTimes'[w] = TimerDuration]_vars

C4_Witness ==
  \E w \in Roots :
    /\ lifecycle = "active" /\ pulses = "every" /\ logFile[w] = <<>>
    /\ remainingTimes[w] = 1 /\ TimerDuration > 1

\* C5 as stated: while a pulse has arrived at every tick, the remaining time
\* stays > 0 and no fire event has occurred.
C5_ContinuousActivityNeverFires ==
  (lifecycle = "active" /\ pulses \in {"every", "due"}) =>
    \A w \in Roots : remainingTimes[w] > 0 /\ logFile[w] = <<>>

\* C5 amended: with a pulse at every tick, no fire event occurs and the
\* remaining time stays > 0 before instant timerDuration; each pulse banks the
\* elapsed tick and re-arms the wake-up for the same instant timerDuration.
C5_NoFireBeforeDuration ==
  (lifecycle = "active" /\ pulses \in {"every", "due"} /\ now < TimerDuration) =>
    \A w \in Roots :
      /\ remainingTimes[w] > 0
      /\ logFile[w] = <<>>
      /\ pulses = "every" => remainingTimes[w] = TimerDuration - now
      /\ \A h \in timeouts[w] : h.due = TimerDuration
      /\ timeouts[w] # {}

C5_Witness ==
  /\ lifecycle = "active" /\ pulses = "every" /\ now = TimerDuration - 1 /\ now >= 2
  /\ \A w \in Roots : remainingTimes[w] = 1 /\ logFile[w] = <<>>

\* C6: a pulse in root a leaves the remaining time, the resume timestamp and
\* the pending wake-up of every other root unchanged.
C6_PulseOnlyTouchesItsRoot ==
  [][\A a \in Roots :
       Pulse(a) => \A b \in Roots \ {a} :
         /\ remainingTimes'[b] = remainingTimes[b]
         /\ lastActivityTimestamps'[b] = lastActivityTimestamps[b]
         /\ timeouts'[b] = timeouts[b]]_vars

\* C7: at teardown, an existing log file of a root with a repository is left
\* as it is and a warning is shown; one of a root without is deleted.
C7_DeactivationPolicy ==
  [][Teardown => \A w \in Roots :
       existsSync(logFile[w]) =>
         IF hasGit[w]
         THEN /\ logFile'[w] = logFile[w]
              /\ <<w, "warning: log file not deleted">> \in notified'
         ELSE /\ logFile'[w] = <<>>
              /\ <<w, "warning: log file not deleted">> \notin notified']_vars

C7_Witness ==
  /\ lifecycle = "disabled"
  /\ \E w, v \in Roots :
       /\ hasGit[w] /\ existsSync(logFile[w])
       /\ <<w, "warning: log file not deleted">> \in notified
       /\ ~hasGit[v] /\ ~existsSync(logFile[v])
       /\ <<v, "log: log file deleted">> \in notified

\* C8: every fire event appends exactly one entry to the root's log (creating
\* it when absent); otherwise the log is unchanged, except that teardown
\* deletes it for a root without repository.
C8_LogAppendOnly ==
  [][\A w \in Roots :
       /\ Fire(w) => logFile'[w] = Append(logFile[w], now)
       /\ \/ logFile'[w] = logFile[w]
          \/ Fire(w) /\ logFile'[w] = Append(logFile[w], now)
          \/ Teardown /\ ~hasGit[w] /\ logFile'[w] = <<>>]_vars

C8_Witness ==
  \E w \in Roots : Len(logFile[w]) = 2 /\ logFile[w][1] < logFile[w][2]

\* C9: a fire event of a root without repository writes its log entry, starts
\* no git command, resets the remaining time to timerDuration and schedules
\* the next wake-up.
C9_NoRepositoryFireContinues ==
  [][\A w \in Roots :
       (Fire(w) /\ ~hasGit[w]) =>
         /\ logFile'[w] = Append(logFile[w], now)
         /\ inflight' = inflight
         /\ Idle(w)
         /\ Rearmed(w)]_vars

C9_Witness ==
  \E w \in Roots :
    /\ ~hasGit[w] /\ <<w, "warning: git is not initialized">> \in notified
    /\ logFile[w] # <<>> /\ timeouts[w] = {Timeout(TimerDuration, now)}

\* C10: when git add or git commit fails, the log entry stays, no git command
\* is started by that turn (commands start only in a fire event or after a
\* successful git add), the remaining time is reset and a wake-up scheduled.
C10_CommitFailureContinues ==
  [][\A w \in Roots :
       /\ (StageDone(w, FALSE) \/ CommitDone(w, FALSE)) =>
            /\ logFile'[w] = logFile[w] /\ existsSync(logFile[w])
            /\ inflight'[w].add = inflight[w].add - (IF StageDone(w, FALSE) THEN 1 ELSE 0)
            /\ inflight'[w].commit = inflight[w].commit - (IF StageDone(w, FALSE) THEN 0 ELSE 1)
            /\ Rearmed(w)
       /\ inflight'[w].add > inflight[w].add => Fire(w)
       /\ inflight'[w].commit > inflight[w].commit => StageDone(w, TRUE)]_vars

C10_Witness ==
  \E w \in Roots :
    /\ <<w, "error: failed to commit log file">> \in notified
    /\ existsSync(logFile[w])
    /\ timeouts[w] = {Timeout(TimerDuration, now)}

\* C11: the remaining time of every root is within 0 .. timerDuration.
C11_RemainingInRange ==
  \A w \in Roots : remainingTimes[w] >= 0 /\ remainingTimes[w] <= TimerDuration

\* a pulse later than the wake-up's instant: elapsed > remaining, clamped to 0
C11_Witness ==
  \E w \in Roots :
    /\ remainingTimes[w] = 0
    /\ lastActivityTimestamps[w] = now
    /\ existsSync(logFile[w]) /\ logFile[w][Len(logFile[w])] < now
    /\ ~Idle(w)

\* C12: a root never has two wake-ups alive, and the one alive is the one
\* whose handle activityTimers holds.
C12_OneWakeupPerRoot ==
  \A w \in Roots :
    /\ Cardinality(timeouts[w]) <= 1
    /\ timeouts[w] \subseteq {activityTimers[w]}

\* a wake-up set by a pulse, by a fire action's end or by a restart is alive
C12_Witness ==
  \E w \in Roots :
    /\ timeouts[w] = {activityTimers[w]}
    /\ activityTimers[w].born > 0
    /\ existsSync(logFile[w])
    /\ lifecycle = "restarted"

\* C13: while a fire action of a root is in progress (its git commands are in
\* flight), no pulse is handled for that root.
C13_NoPulseDuringFireAction ==
  [][\A a, w \in Roots :
       (Pulse(a) /\ ~Idle(w)) =>
         /\ remainingTimes'[w] = remainingTimes[w]
         /\ lastActivityTimestamps'[w] = lastActivityTimestamps[w]
         /\ timeouts'[w] = timeouts[w]]_vars

\* C14: a root fires while one of its git commands is still in flight only if
\* that command has been running for at least timerDuration (the oldest
\* command in flight started no earlier than the first log entry).
C14_NoOverlappingCommits ==
  [][\A w \in Roots :
       (Fire(w) /\ ~Idle(w)) => now - logFile[w][1] >= TimerDuration]_vars

\* C15: after the disable command or the disposal of the subscriptions, a
\* pulse changes no remaining time and schedules no wake-up.
C15_PulseIgnoredAfterTeardown ==
  [][\A a \in Roots :
       (Pulse(a) /\ lifecycle \in {"disabled", "disposed"}) =>
         /\ remainingTimes' = remainingTimes
         /\ timeouts' = timeouts]_vars

\* C16: a fire action whose log write throws still ends with the remaining
\* time reset to timerDuration and the next wake-up scheduled.
C16_WriteFailureContinues ==
  [][\A w \in Roots : FireWriteFails(w) => Rearmed(w)]_vars

\* C17: a session that has not been torn down is always counting down (a
\* wake-up is pending) or in a fire action (a git command is in flight), and
\* every fire action is eventually followed by a state where the remaining
\* time is timerDuration again and a wake-up is pending.
C17_FireActionsEndRearmed ==
  /\ [](lifecycle \in {"active", "restarted"} =>
          \A w \in Roots : timeouts[w] # {} \/ ~Idle(w))
  /\ \A w \in Roots :
       ~Idle(w) ~> (remainingTimes[w] = TimerDuration /\ timeouts[w] # {})

\* a commit that took one tick has completed and the root counts down again
C17_Witness ==
  \E w \in Roots :
    /\ lifecycle = "active"
    /\ Idle(w)
    /\ <<w, "info: log file committed">> \in notified
    /\ logFile[w] = <<TimerDuration>>
    /\ now = TimerDuration + 1
    /\ remainingTimes[w] = TimerDuration
    /\ timeouts[w] = {Timeout(TimerDuration, now)}

\* order of the git commands of root w: a fire event starts `git add` only,
\* `git commit` starts only in the turn where a `git add` of w has succeeded,
\* and a failed `git add` starts nothing
GitOrder(w) ==
  /\ inflight'[w].add > inflight[w].add =>
       /\ Fire(w) /\ hasGit[w]
       /\ inflight'[w] = [add |-> inflight[w].add + 1, commit |-> inflight[w].commit]
  /\ inflight'[w].commit > inflight[w].commit =>
       /\ StageDone(w, TRUE)
       /\ inflight'[w] = [add |-> inflight[w].add - 1, commit |-> inflight[w].commit + 1]
  /\ StageDone(w, FALSE) =>
       inflight'[w] = [add |-> inflight[w].add - 1, commit |-> inflight[w].commit]
  /\ (\E ok \in BOOLEAN : CommitDone(w, ok)) =>
       inflight'[w] = [add |-> inflight[w].add, commit |-> inflight[w].commit - 1]

PairEnds(w) == StageDone(w, FALSE) \/ (\E ok \in BOOLEAN : CommitDone(w, ok))

\* C18 as stated: the git commands of a fire event run in order (add, then
\* commit only after add succeeded), and the end of the pair shows exactly
\* one notification, a success or a failure.
C18_PairWithOneNotification ==
  [][\A w \in Roots :
       /\ GitOrder(w)
       /\ PairEnds(w) => Cardinality(notified') = 1]_vars

\* C18 amended: same order; a successful pair shows the one success
\* notification, a failed pair shows two error notifications (the failed
\* command's and the commit's) and no success notification.
C18_PairInOrder ==
  [][\A w \in Roots :
       /\ GitOrder(w)
       /\ CommitDone(w, TRUE) => notified' = {<<w, "info: log file committed">>}
       /\ StageDone(w, FALSE) =>
            notified' = {<<w, "error: git add failed">>,
                         <<w, "error: failed to commit log file">>}
       /\ CommitDone(w, FALSE) =>
            notified' = {<<w, "error: git commit failed">>,
                         <<w, "error: failed to commit log file">>}]_vars

\* `git add` succeeded, then `git commit` failed
C18_Witness ==
  \E w \in Roots :
    /\ <<w, "error: git commit failed">> \in notified
    /\ Idle(w)
    /\ logFile[w] = <<TimerDuration>>

\* C19: a fire event of root a, and the success or failure of a git command
\* of a, leave the remaining time, the timestamp, the wake-up and the log file
\* of every other root b unchanged, and start or end git commands in a only.
C19_FireTouchesItsRootOnly ==
  [][\A a, b \in Roots :
       (/\ a # b
        /\ \/ Fire(a)
           \/ \E ok \in BOOLEAN : StageDone(a, ok)
           \/ \E ok \in BOOLEAN : CommitDone(a, ok)) =>
         /\ remainingTimes'[b] = remainingTimes[b]
         /\ lastActivityTimestamps'[b] = lastActivityTimestamps[b]
         /\ activityTimers'[b] = activityTimers[b]
         /\ timeouts'[b] = timeouts[b]
         /\ logFile'[b] = logFile[b]
         /\ inflight'[b] = inflight[b]]_vars

\* the commit of a has just completed while b, which fired earlier, counts down
C19_Witness ==
  \E a, b \in Roots :
    /\ a # b
    /\ <<a, "info: log file committed">> \in notified
    /\ timeouts[a] = {Timeout(TimerDuration, now)}
    /\ existsSync(logFile[b])
    /\ timeouts[b] # {} /\ timeouts[b] # timeouts[a]

\* a pulse of a leaves timestamp + remaining time of a counting-down root w
\* (wake-up pending, no fire action in progress) unchanged, and the wake-up it
\* sets is due at the same instant as the one it replaced
PulseKeepsDeadline(a, w) ==
  (Pulse(a) /\ timeouts[w] # {} /\ Idle(w)) =>
    /\ lastActivityTimestamps'[w] + remainingTimes'[w]
         = lastActivityTimestamps[w] + remainingTimes[w]
    /\ \A h \in timeouts[w] : \A k \in timeouts'[w] : k.due = h.due
    /\ timeouts'[w] # {}

\* root w counts down after a fire event, in a session no command has touched
CountsDownAfterFire(w) ==
  lifecycle = "active" /\ Idle(w) /\ existsSync(logFile[w]) /\ timeouts[w] # {}

====
